---- MODULE Spec2Model ----
(***************************************************************************)
(* Model of the client-side delivery core of gemini-ai-chatbot.            *)
(*                                                                         *)
(* SocketManager (src/unnamed/part_000) owns the Socket.IO transport, the  *)
(* connected flag and the local queue of unsent payloads that is persisted *)
(* in localStorage under 'pending_messages'.  JavaScript runs every        *)
(* handler to completion, so each action below is one whole call of a      *)
(* public method or one whole transport event handler.                     *)
(*                                                                         *)
(* The Socket.IO client itself is not part of the repository.  Of it the   *)
(* model keeps only what the manager's code relies on: a socket object     *)
(* has a 'connected' property, fires 'connect', 'disconnect' and           *)
(* 'connect_error', retries a lost or failed connection up to              *)
(* reconnectionAttempts times, and emit() either raises or takes the       *)
(* payload.  localStorage writes are taken to succeed.                     *)
(***************************************************************************)
EXTENDS Integers, Sequences, FiniteSets, Bags, TLC

\* ---------------------------------------------------------------- bounds
MaxSockets == 2      \* transports of one page that exist at the same time
MaxSends == 2        \* sendMessage calls in a behaviour
MaxSubs == 2         \* on() calls in a behaviour
MaxInbound == 2      \* inbound events the transports produce in a behaviour
MaxSessions == 2     \* handleSendMessage calls of the chat page in a behaviour
MaxRecords == 3      \* records the server streams in a behaviour, all responses
MaxChatSends == 2    \* messages ChatManager.sendMessage starts to send

\* ------------------------------------------------------ program constants
maxReconnectAttempts == 6
maxRetries == 3

MsgIds == 1..MaxSends

\* ------------------------------------------------------------ JSON values
\* A payload object is a function from its keys to values; Undefined is the
\* JavaScript undefined, which JSON.stringify leaves out.
Undefined == "undefined"
KeyOrder == <<"message", "conversation_id">>
Metas == {[k \in {"conversation_id"} |-> Undefined],
          [k \in {"conversation_id"} |-> "c1"]}

\* Object.assign({message}, meta): meta's keys are laid over {message}.
MakePayload(message, meta) ==
    [k \in {"message"} \cup DOMAIN meta |->
        IF k \in DOMAIN meta THEN meta[k] ELSE message]

RECURSIVE StringifyKeys(_, _)
StringifyKeys(obj, i) ==
    IF i > Len(KeyOrder) THEN <<>>
    ELSE LET k == KeyOrder[i] IN
         IF k \in DOMAIN obj /\ obj[k] # Undefined
         THEN <<(<<k, obj[k]>>)>> \o StringifyKeys(obj, i + 1)
         ELSE StringifyKeys(obj, i + 1)

\* JSON.stringify of one payload: its key/value pairs in insertion order,
\* without the keys whose value is undefined.
JSONStringifyObj(obj) == StringifyKeys(obj, 1)

\* JSON.stringify of the queue array.
JSONStringify(q) == [i \in 1..Len(q) |-> JSONStringifyObj(q[i])]

\* JSON.parse of one serialized payload.
JSONParseObj(str) ==
    [k \in {str[i][1] : i \in 1..Len(str)} |->
        str[CHOOSE i \in 1..Len(str) : str[i][1] = k][2]]

\* JSON.parse of the serialized queue array.
JSONParse(raw) == [i \in 1..Len(raw) |-> JSONParseObj(raw[i])]

\* The text of the n-th message the user sends.
MsgText(n) == ToString(n)

\* The number of the send a serialized payload came from (message is its
\* first key).
MsgOf(str) == CHOOSE m \in MsgIds : MsgText(m) = str[1][2]

\* localStorage.getItem returns null for a slot never written.
NoItem == [present |-> FALSE, raw |-> <<>>]

\* ------------------------------------------------------------------ state
VARIABLES
    socket,        \* this.socket: the current transport (st "none" is null)
    stale,         \* the live transports that a later connect() replaced
    connected,     \* this.connected
    reconnectAttempts, \* this.reconnectAttempts
    localQueue,    \* this.localQueue
    storage,       \* localStorage['pending_messages']
    wire,          \* payloads taken by socket.emit('send_message', ...), in order
    lastStatus,    \* status of the last 'connection' event given to subscribers
    nextMsg,       \* number of sendMessage calls so far
    sendCase,      \* how each sendMessage call ended
    lastOp,        \* what the last handler did
    eventHandlers, \* this.eventHandlers: event name -> callbacks, in on() order
    subs,          \* number of on() calls so far
    produced,      \* number of inbound events the transports have produced
    dispatched,    \* the callback invocations of the last handler, in order
    lastSeen,      \* per callback, the number of the last event it was given
    sess,          \* the streamResponse calls of the chat page, in start order
    recordsSent,   \* number of records the server has streamed, all responses
    conversationHistory, \* GeminiChatApp.conversationHistory
    typing,        \* number of #typing-indicator elements in the page
    sendBtnDisabled, \* this.sendBtn.disabled
    cm             \* the ChatManager and the sendMessage call it is in

connVars == <<socket, stale, connected, reconnectAttempts, localQueue, storage,
              wire, lastStatus, nextMsg, sendCase, lastOp>>
evVars == <<eventHandlers, subs, produced, dispatched, lastSeen>>

streamVars == <<sess, recordsSent, conversationHistory, typing, sendBtnDisabled>>

chatVars == <<cm>>

vars == <<connVars, evVars, streamVars, chatVars>>

NoOp == [op |-> "init", ret |-> "none", raised |-> FALSE, created |-> FALSE,
         events |-> <<>>, emits |-> 0]

\* A transport is its state ("connecting" also while the library retries,
\* "connected", "closed" by disconnect() or by the server, "failed" after
\* the last retry) and the number of retries the library has started.
Null == [st |-> "none", attempts |-> 0]

\* this.socket is not null.
HasSocket == socket.st # "none"

\* this.socket.connected, the transport's own view.
SocketConnected == socket.st = "connected"

\* A transport that is connecting, retrying or connected: the handlers
\* connect() attached to it can still fire.
IsLive(t) == t.st \in {"connecting", "connected"}

\* The live transports that connect() has created.
LiveCount == (IF IsLive(socket) THEN 1 ELSE 0) + BagCardinality(stale)

\* The transports whose handlers may fire: the current one and the replaced
\* ones.  Replaced transports in the same state are not told apart.
Transports == {[cur |-> TRUE, t |-> socket]}
                 \cup {[cur |-> FALSE, t |-> r] : r \in BagToSet(stale)}

\* Transport h goes to state new.  A replaced transport that has stopped is
\* out of reach and forgotten; this.socket keeps referring to a stopped one.
SetTransport(h, new) ==
    IF h.cur
    THEN /\ socket' = new
         /\ stale' = stale
    ELSE /\ socket' = socket
         /\ stale' = (stale (-) SetToBag({h.t}))
                        (+) (IF IsLive(new) THEN SetToBag({new}) ELSE EmptyBag)

InitLocalQueueCatch(item) == <<>>

\* _initLocalQueue: the slot's content parsed, '[]' when the slot is empty.
InitLocalQueue(item) == IF item.present THEN JSONParse(item.raw) ELSE <<>>

PersistLocalQueueSkipped(q) == storage

\* _persistLocalQueue: what setItem stores for queue q.
PersistLocalQueue(q) == [present |-> TRUE, raw |-> JSONStringify(q)]

\* ------------------------------------------------------------- connect()
AlreadyConnectedNever(sk, c) == FALSE

\* The early return of connect(): a transport exists and the flag is set.
AlreadyConnected(sk, c) == sk.st # "none" /\ c

Connect ==
    \/ /\ AlreadyConnected(socket, connected)
       /\ lastOp' = [NoOp EXCEPT !.op = "connect"]
       /\ UNCHANGED <<socket, stale, connected, reconnectAttempts, localQueue,
                      storage, wire, lastStatus, nextMsg, sendCase>>
    \/ /\ ~AlreadyConnected(socket, connected)
       /\ LiveCount < MaxSockets
       /\ \/ \* io() returns a new transport and the seven handlers are attached;
             \* the transport this.socket referred to is not closed
             /\ socket' = [st |-> "connecting", attempts |-> 0]
             /\ stale' = IF IsLive(socket) THEN stale (+) SetToBag({socket})
                                           ELSE stale
             /\ lastOp' = [NoOp EXCEPT !.op = "connect", !.created = TRUE]
          \/ \* io() raises: caught and logged, nothing assigned
             /\ lastOp' = [NoOp EXCEPT !.op = "connect"]
             /\ UNCHANGED <<socket, stale>>
       /\ UNCHANGED <<connected, reconnectAttempts, localQueue, storage, wire,
                      lastStatus, nextMsg, sendCase>>

\* ---------------------------------------------------------- disconnect()
Disconnect ==
    /\ HasSocket
    /\ socket' = IF IsLive(socket) THEN [st |-> "closed", attempts |-> 0]
                                   ELSE socket
    /\ connected' = FALSE
       \* socket.disconnect() on a connected transport fires its 'disconnect'
       \* handler before returning
    /\ IF SocketConnected
       THEN /\ lastStatus' = "disconnected"
            /\ lastOp' = [NoOp EXCEPT !.op = "disconnect",
                                      !.events = <<"disconnected">>]
       ELSE /\ lastStatus' = lastStatus
            /\ lastOp' = [NoOp EXCEPT !.op = "disconnect"]
    /\ UNCHANGED <<stale, reconnectAttempts, localQueue, storage, wire,
                   nextMsg, sendCase>>

\* ---------------------------------------------------------- sendMessage
CanEmitNowFlagOnly == connected /\ HasSocket

\* The condition under which sendMessage tries socket.emit.
CanEmitNow == connected /\ HasSocket /\ SocketConnected

EnqueueFront(q, payload) == <<payload>> \o q

\* The queue after the payload was pushed for a later retry.
Enqueue(q, payload) == Append(q, payload)

SendLetsRaiseEscape == FALSE

\* Whether a raise of socket.emit inside sendMessage is caught.
SendCatchesRaise == TRUE

SendMessage(meta) ==
    /\ nextMsg < MaxSends
    /\ LET message == nextMsg + 1
           payload == MakePayload(MsgText(message), meta)
       IN
       /\ nextMsg' = message
       /\ \/ \* emitted at once
             /\ CanEmitNow
             /\ wire' = Append(wire, JSONStringifyObj(payload))
             /\ sendCase' = [sendCase EXCEPT ![message] = "direct"]
             /\ lastOp' = [NoOp EXCEPT !.op = "send", !.ret = "true", !.emits = 1]
             /\ UNCHANGED <<localQueue, storage>>
          \/ \* socket.emit raises
             /\ CanEmitNow
             /\ sendCase' = [sendCase EXCEPT ![message] = "raise"]
             /\ IF SendCatchesRaise
                THEN /\ localQueue' = Enqueue(localQueue, payload)
                     /\ storage' = PersistLocalQueue(localQueue')
                     /\ lastOp' = [NoOp EXCEPT !.op = "send", !.ret = "false",
                                               !.raised = TRUE]
                ELSE /\ lastOp' = [NoOp EXCEPT !.op = "send", !.ret = "threw",
                                               !.raised = TRUE]
                     /\ UNCHANGED <<localQueue, storage>>
             /\ UNCHANGED wire
          \/ \* not connected: queued
             /\ ~CanEmitNow
             /\ sendCase' = [sendCase EXCEPT ![message] = "disc"]
             /\ localQueue' = Enqueue(localQueue, payload)
             /\ storage' = PersistLocalQueue(localQueue')
             /\ lastOp' = [NoOp EXCEPT !.op = "send", !.ret = "false"]
             /\ UNCHANGED wire
    /\ UNCHANGED <<socket, stale, connected, reconnectAttempts, lastStatus>>

\* -------------------------------------------------------- _flushLocalQueue
\* The guard of _flushLocalQueue.
FlushRuns(c, sk) == c /\ sk.st # "none"

\* The flush loop with k emits that did not raise: what was emitted, and
\* what stays queued (when k < Len(q) the emit of entry k+1 raised and the
\* entry was put back at the head).
FlushEmitted(q, k) == SubSeq(q, 1, k)

FlushRemainingNoUnshift(q, k) == SubSeq(q, k + 2, Len(q))

FlushRemaining(q, k) == SubSeq(q, k + 1, Len(q))

\* ------------------------------------------------ transport event handlers
StatusOfErrorAsDisconnect(ev) == IF ev = "connect" THEN "connected" ELSE "disconnected"

\* The status the 'connection' event carries for each transport event.
StatusOf(ev) == CASE ev = "connect" -> "connected"
                  [] ev = "disconnect" -> "disconnected"
                  [] ev = "connect_error" -> "error"

\* socket.on('connect'): transport h of this page has connected.  The
\* handler flushes through this.socket, whichever transport fired.
OnConnect(h) ==
    /\ h.t.st = "connecting"
    /\ SetTransport(h, [st |-> "connected", attempts |-> 0])
    /\ connected' = TRUE
    /\ reconnectAttempts' = 0
    /\ lastStatus' = StatusOf("connect")
    /\ IF FlushRuns(connected', socket)
       THEN \E k \in 0..Len(localQueue) :
               /\ wire' = wire \o JSONStringify(FlushEmitted(localQueue, k))
               /\ localQueue' = FlushRemaining(localQueue, k)
               /\ storage' = PersistLocalQueue(localQueue')
               /\ lastOp' = [NoOp EXCEPT !.op = "on_connect",
                                         !.events = <<StatusOf("connect")>>,
                                         !.raised = (k < Len(localQueue)),
                                         !.emits = k]
       ELSE /\ lastOp' = [NoOp EXCEPT !.op = "on_connect",
                                      !.events = <<StatusOf("connect")>>]
            /\ UNCHANGED <<wire, localQueue, storage>>
    /\ UNCHANGED <<nextMsg, sendCase>>

\* socket.on('disconnect'): transport h lost its connection.  The library
\* then reconnects on its own, except when the server closed the socket.
OnDisconnect(h) ==
    /\ h.t.st = "connected"
    /\ \E reason \in {"transport close", "io server disconnect"} :
          SetTransport(h, IF reason = "io server disconnect"
                          THEN [st |-> "closed", attempts |-> 0]
                          ELSE [st |-> "connecting", attempts |-> 1])
    /\ connected' = FALSE
    /\ lastStatus' = StatusOf("disconnect")
    /\ lastOp' = [NoOp EXCEPT !.op = "on_disconnect",
                              !.events = <<StatusOf("disconnect")>>]
    /\ UNCHANGED <<reconnectAttempts, localQueue, storage, wire,
                   nextMsg, sendCase>>

\* socket.on('connect_error'): an attempt of transport h failed.  The
\* library retries until reconnectionAttempts retries were made.
OnConnectError(h) ==
    /\ h.t.st = "connecting"
    /\ SetTransport(h, IF h.t.attempts >= maxReconnectAttempts
                       THEN [st |-> "failed", attempts |-> h.t.attempts]
                       ELSE [st |-> "connecting", attempts |-> h.t.attempts + 1])
    /\ lastStatus' = StatusOf("connect_error")
    /\ lastOp' = [NoOp EXCEPT !.op = "on_connect_error",
                              !.events = <<StatusOf("connect_error")>>]
    /\ UNCHANGED <<connected, reconnectAttempts, localQueue, storage,
                   wire, nextMsg, sendCase>>

\* ------------------------------------------------------------ page reload
\* The page is closed and loaded again: the transports of the old page are
\* gone and a new SocketManager is constructed over the same localStorage.
Restart ==
    /\ socket' = Null
    /\ stale' = EmptyBag
    /\ connected' = FALSE
    /\ reconnectAttempts' = 0
    /\ localQueue' = InitLocalQueue(storage)
    /\ lastOp' = [NoOp EXCEPT !.op = "restart"]
    /\ UNCHANGED <<storage, wire, lastStatus, nextMsg, sendCase>>

\* ------------------------------------------------- on / off / _emitEvent
\* The inbound events connect() attaches a handler of their own to.
NamedEvents == {"new_message", "message_error", "did_you_mean"}

\* The event names the callers subscribe to and the server sends here: one
\* with a handler of its own and one the manager does not know.
SubNames == {"new_message", "status_update"}
Callbacks == {"cb1", "cb2"}

\* on(event, cb): cb is pushed at the end of the event's list.
On(event, cb) ==
    /\ subs < MaxSubs
    /\ subs' = subs + 1
    /\ eventHandlers' = [eventHandlers EXCEPT ![event] = Append(@, cb)]
    /\ UNCHANGED <<produced, dispatched, lastSeen>>

RECURSIVE Without(_, _)
Without(list, cb) ==
    IF list = <<>> THEN <<>>
    ELSE IF Head(list) = cb THEN Without(Tail(list), cb)
    ELSE <<Head(list)>> \o Without(Tail(list), cb)

\* off(event, cb): every occurrence of cb is filtered out of the list.
Off(event, cb) ==
    /\ \E i \in 1..Len(eventHandlers[event]) : eventHandlers[event][i] = cb
    /\ eventHandlers' = [eventHandlers EXCEPT ![event] = Without(@, cb)]
    /\ UNCHANGED <<subs, produced, dispatched, lastSeen>>

\* Of the callbacks the callers subscribe, cb2 is one that throws.
Throws(cb) == cb = "cb2"

InvokedUntilThrow(handlers) ==
    IF \E i \in 1..Len(handlers) : Throws(handlers[i])
    THEN SubSeq(handlers, 1, CHOOSE i \in 1..Len(handlers) :
                                /\ Throws(handlers[i])
                                /\ \A j \in 1..i-1 : ~Throws(handlers[j]))
    ELSE handlers

\* handlers.forEach(fn => { try { fn(payload) } catch (e) {...} }): the
\* callbacks that are called; what one of them throws is caught and the
\* forEach goes on.
Invoked(handlers) == handlers

\* _emitEvent(event, payload): the callbacks of the event are called in list
\* order before _emitEvent returns.
EmitEvent(event, payload) ==
    IF event \in DOMAIN eventHandlers
    THEN [i \in 1..Len(Invoked(eventHandlers[event])) |->
             [cb |-> Invoked(eventHandlers[event])[i], event |-> event,
              payload |-> payload]]
    ELSE <<>>

OnAnyKnownOnly(event, payload) ==
    IF event \in NamedEvents THEN EmitEvent(event, payload) ELSE <<>>

\* socket.onAny: every inbound event is forwarded under its own name.
OnAnyForward(event, payload) == EmitEvent(event, payload)

NamedHandlerStale(event, payload) ==
    IF event \in NamedEvents THEN EmitEvent(event, payload - 1) ELSE <<>>

\* socket.on('new_message' | 'message_error' | 'did_you_mean'): the handler
\* of its own that a named event has.
NamedHandler(event, payload) ==
    IF event \in NamedEvents THEN EmitEvent(event, payload) ELSE <<>>

\* Transport h, connected, receives event number produced + 1 from the
\* server; its payload is that number.  The library calls the onAny
\* listener and then the event's own listener.
OnInbound(h, event) ==
    /\ h.t.st = "connected"
    /\ produced < MaxInbound
    /\ produced' = produced + 1
    /\ dispatched' = OnAnyForward(event, produced') \o NamedHandler(event, produced')
    /\ lastSeen' = [cb \in Callbacks |->
                       IF \E i \in 1..Len(dispatched') : dispatched'[i].cb = cb
                       THEN dispatched'[CHOOSE i \in 1..Len(dispatched') :
                                /\ dispatched'[i].cb = cb
                                /\ \A j \in i+1..Len(dispatched') :
                                       dispatched'[j].cb # cb].payload
                       ELSE lastSeen[cb]]
    /\ UNCHANGED <<eventHandlers, subs>>

\* ------------------------------------------- GeminiChatApp.streamResponse
\* Text is a sequence of symbols.  The marker 'data: ' is two symbols, so
\* that a chunk can end inside it; "\n" is the record delimiter and " " is
\* white space.
Marker == <<"da", "ta: ">>
Newline == "\n"
Blank == " "

\* The content of a delta: a visible text and a blank one.
Contents == {"a", Blank}

\* The records a response is made of, by what the server wrote:
\*   delta_a, delta_blank   data: {"response": c}
\*   done                   data: {"done": true}
\*   error                  data: {"error": "x"}
\*   bad                    data: {"response": "a      (body cut short)
\*   bare                   {"response": "a"}          (no marker)
RecordKinds == {"delta_a", "delta_blank", "done", "error", "bad", "bare"}

\* The records of a well-formed response, and the records of a response
\* with lines the consumer cannot use.
WellFormedKinds == {"delta_a", "delta_blank", "done", "error"}
NoisyKinds == {"delta_a", "done", "bad", "bare"}

Body(kind) ==
    CASE kind = "delta_a" -> <<"{r:", "a", "}">>
      [] kind = "delta_blank" -> <<"{r:", Blank, "}">>
      [] kind = "done" -> <<"{d}">>
      [] kind = "error" -> <<"{e}">>
      [] kind = "bad" -> <<"{r:", "a">>
      [] kind = "bare" -> <<"{r:", "a", "}">>

RecordText(kind) == IF kind = "bare" THEN Body(kind) ELSE Marker \o Body(kind)

\* The body of the response: the records, each followed by a newline; the
\* last one only if the server terminated it.
RECURSIVE Serialize(_, _)
Serialize(recs, terminated) ==
    IF recs = <<>> THEN <<>>
    ELSE IF Len(recs) = 1
         THEN RecordText(recs[1]) \o (IF terminated THEN <<Newline>> ELSE <<>>)
         ELSE RecordText(Head(recs)) \o <<Newline>> \o Serialize(Tail(recs), terminated)

\* String.prototype.trim
RECURSIVE TrimLeft(_)
TrimLeft(str) ==
    IF str # <<>> /\ Head(str) = Blank THEN TrimLeft(Tail(str)) ELSE str

RECURSIVE TrimRight(_)
TrimRight(str) ==
    IF str # <<>> /\ str[Len(str)] = Blank
    THEN TrimRight(SubSeq(str, 1, Len(str) - 1)) ELSE str

Trim(str) == TrimRight(TrimLeft(str))

\* buffer.split('\n'): the pieces between the newlines, at least one.
RECURSIVE Split(_, _)
Split(str, piece) ==
    IF str = <<>> THEN <<piece>>
    ELSE IF Head(str) = Newline THEN <<piece>> \o Split(Tail(str), <<>>)
    ELSE Split(Tail(str), Append(piece, Head(str)))

\* lines after lines.pop(): the complete records of the buffer.
CompleteLines(parts) == SubSeq(parts, 1, Len(parts) - 1)

CarryDropped(parts) == <<>>

\* buffer = lines.pop(): the piece after the last newline is carried.
Carry(parts) == parts[Len(parts)]

StartsWithAnything(line) == TRUE

\* line.startsWith('data: ')
StartsWithMarker(line) ==
    Len(line) >= Len(Marker) /\ SubSeq(line, 1, Len(Marker)) = Marker

\* line.substring(6)
AfterMarker(line) == SubSeq(line, Len(Marker) + 1, Len(line))

NoJson == [ok |-> FALSE, response |-> <<>>, done |-> FALSE, error |-> <<>>]

JSONParseLenient(str) ==
    IF Len(str) >= 2 /\ str[1] = "{r:" /\ str[2] \in Contents
    THEN [NoJson EXCEPT !.ok = TRUE, !.response = <<str[2]>>]
    ELSE IF str = <<"{d}">> THEN [NoJson EXCEPT !.ok = TRUE, !.done = TRUE]
    ELSE IF str = <<"{e}">> THEN [NoJson EXCEPT !.ok = TRUE, !.error = <<"x">>]
    ELSE NoJson

\* JSON.parse of a record body; ok is FALSE where JSON.parse throws.  A key
\* the object does not have reads as the empty (falsy) value.
JSONParseRecord(str) ==
    IF Len(str) = 3 /\ str[1] = "{r:" /\ str[2] \in Contents /\ str[3] = "}"
    THEN [NoJson EXCEPT !.ok = TRUE, !.response = <<str[2]>>]
    ELSE IF str = <<"{d}">> THEN [NoJson EXCEPT !.ok = TRUE, !.done = TRUE]
    ELSE IF str = <<"{e}">> THEN [NoJson EXCEPT !.ok = TRUE, !.error = <<"x">>]
    ELSE NoJson

\* The locals of one streamResponse call, with the response it reads
\* (recs, terminated), how far it has read (pos) and what it did (events).
NewSession ==
    [status |-> "fetching", recs |-> <<>>, terminated |-> TRUE, pos |-> 0,
     buffer |-> <<>>, fullResponse |-> <<>>, streamStarted |-> FALSE,
     bubble |-> <<>>, events |-> <<>>]

Text(s) == Serialize(s.recs, s.terminated)

Event(type, text) == [type |-> type, text |-> text]

\* this.removeTypingIndicator(): the first #typing-indicator is removed.
RemoveTypingIndicator(n) == IF n > 0 THEN n - 1 ELSE 0

AccumulateFront(full, content) == content \o full

\* fullResponse += json.response
Accumulate(full, content) == full \o content

\* if (json.response) {...}: accumulate, create the bubble on the first
\* delta, render the accumulated text.
OnDelta(c, json) ==
    LET full == Accumulate(c.s.fullResponse, json.response)
    IN [c EXCEPT !.s.fullResponse = full,
                 !.s.streamStarted = TRUE,
                 !.s.bubble = full,
                 !.s.events = Append(@, Event("delta", json.response)),
                 !.typing = IF c.s.streamStarted THEN @
                            ELSE RemoveTypingIndicator(@)]

\* else if (json.done) {...}: the accumulated text, unless blank, is pushed
\* to the conversation history and saved.
OnDone(c) ==
    LET persist == Trim(c.s.fullResponse) # <<>>
    IN [c EXCEPT !.history = IF persist
                             THEN Append(@, [role |-> "assistant",
                                             content |-> c.s.fullResponse])
                             ELSE @,
                 !.s.events = Append(@, Event("done",
                                  IF persist THEN c.s.fullResponse ELSE <<>>)),
                 !.typing = RemoveTypingIndicator(@)]

\* else if (json.error) {...}: an error message is shown.
OnError(c) ==
    [c EXCEPT !.s.events = Append(@, Event("error", <<>>)),
              !.typing = RemoveTypingIndicator(@)]

\* catch (e): the parse error is logged and the loop goes on.
OnParseError(c) == [c EXCEPT !.s.events = Append(@, Event("parse_error", <<>>))]

\* The body of the for loop, lines 205-264.
HandleLine(c, rawLine) ==
    LET line == Trim(rawLine)
        jsonStr == Trim(AfterMarker(line))
        json == JSONParseRecord(jsonStr)
    IN IF ~StartsWithMarker(line) THEN c
       ELSE IF jsonStr = <<>> THEN c
       ELSE IF ~json.ok THEN OnParseError(c)
       ELSE IF json.response # <<>> THEN OnDelta(c, json)
       ELSE IF json.done THEN OnDone(c)
       ELSE IF json.error # <<>> THEN OnError(c)
       ELSE c

RECURSIVE ProcessLines(_, _)
ProcessLines(c, lines) ==
    IF lines = <<>> THEN c
    ELSE ProcessLines(HandleLine(c, Head(lines)), Tail(lines))

\* One turn of the while loop for a chunk: append to the buffer, split,
\* carry the last piece, handle the complete lines.
ProcessChunk(c, chunk) ==
    LET parts == Split(c.s.buffer \o chunk, <<>>)
    IN ProcessLines([c EXCEPT !.s.buffer = Carry(parts)], CompleteLines(parts))

\* Lines 268-278: what is left in the buffer is given to JSON.parse as it
\* is; only a response key is looked at, and it is only accumulated.
ProcessRemaining(c) ==
    LET rest == Trim(c.s.buffer)
        json == JSONParseRecord(rest)
    IN IF rest = <<>> THEN c
       ELSE IF ~json.ok
            THEN [c EXCEPT !.s.events = Append(@, Event("final_parse_error", <<>>))]
       ELSE IF json.response # <<>>
            THEN [c EXCEPT !.s.fullResponse = Accumulate(@, json.response),
                           !.s.events = Append(@, Event("final_text", json.response))]
       ELSE c

Ctx(i) == [s |-> sess[i], history |-> conversationHistory, typing |-> typing]

Store(i, c) ==
    /\ sess' = [sess EXCEPT ![i] = c.s]
    /\ UNCHANGED recordsSent
    /\ conversationHistory' = c.history
    /\ typing' = c.typing

\* A streamResponse call that has returned has no locals any more; what it
\* left is kept until the next send.
Returned == [NewSession EXCEPT !.status = "returned"]

InFlight(s) == s.status \in {"fetching", "reading"}

StartSessionAborting(ss, new) == Append([i \in 1..Len(ss) |-> Returned], new)

\* A call of handleSendMessage has locals of its own; the calls before it
\* that are in flight keep theirs.
StartSession(ss, new) ==
    Append([i \in 1..Len(ss) |-> IF InFlight(ss[i]) THEN ss[i] ELSE Returned], new)

\* handleSendMessage with a non-empty message: the message is pushed to the
\* history, the send button is disabled and the request goes out.
HandleSendMessage ==
    /\ Len(sess) < MaxSessions
    /\ conversationHistory' = Append(conversationHistory,
                                     [role |-> "user", content |-> <<"q">>])
    /\ sendBtnDisabled' = TRUE
    /\ sess' = StartSession(sess, NewSession)
    /\ UNCHANGED <<typing, recordsSent>>

\* The submit button: it cannot be pressed while it is disabled.
ClickSend == ~sendBtnDisabled /\ HandleSendMessage

\* The Enter key in the message input: handleSendMessage is called whatever
\* the state of the button.
EnterSend == HandleSendMessage

Streams(kinds, n) == UNION {[1..k -> kinds] : k \in 0..n}

\* fetch resolves with an OK response whose body is the stream of recs;
\* streamResponse starts: its locals are fresh and the typing indicator is
\* added.
ResponseArrives(i, recs, terminated) ==
    /\ sess[i].status = "fetching"
    /\ recordsSent + Len(recs) <= MaxRecords
    /\ recs = <<>> => terminated
    /\ recordsSent' = recordsSent + Len(recs)
    /\ sess' = [sess EXCEPT ![i] = [NewSession EXCEPT !.status = "reading",
                                                      !.recs = recs,
                                                      !.terminated = terminated]]
    /\ typing' = typing + 1
    /\ UNCHANGED <<conversationHistory, sendBtnDisabled>>

\* fetch rejects, or resolves with a status that is not OK: streamResponse
\* is not called; the catch of sendMessage removes a typing indicator,
\* enables the send button and shows the error.
FetchFails(i) ==
    /\ sess[i].status = "fetching"
    /\ sess' = [sess EXCEPT ![i] = [@ EXCEPT !.status = "failed",
                                            !.events = <<Event("fetch_error", <<>>)>>]]
    /\ typing' = RemoveTypingIndicator(typing)
    /\ sendBtnDisabled' = FALSE
    /\ UNCHANGED <<recordsSent, conversationHistory>>

\* reader.read() resolves with the next n symbols of the body.
ReadChunk(i, n) ==
    /\ sess[i].status = "reading"
    /\ sess[i].pos + n <= Len(Text(sess[i]))
    /\ LET chunk == SubSeq(Text(sess[i]), sess[i].pos + 1, sess[i].pos + n)
           c == ProcessChunk(Ctx(i), chunk)
       IN Store(i, [c EXCEPT !.s.pos = @ + n])
    /\ UNCHANGED sendBtnDisabled

\* reader.read() resolves with done: the rest of the buffer is looked at,
\* the typing indicator removed and the send button enabled.
ReadDone(i) ==
    /\ sess[i].status = "reading"
    /\ sess[i].pos = Len(Text(sess[i]))
    /\ LET c == ProcessRemaining(Ctx(i))
       IN Store(i, [c EXCEPT !.s.status = "ended",
                             !.typing = RemoveTypingIndicator(@)])
    /\ sendBtnDisabled' = FALSE

\* reader.read() rejects (the connection breaks): the outer catch removes
\* the typing indicator, enables the send button and shows the error.
ReadFail(i) ==
    /\ sess[i].status = "reading"
    /\ LET c == Ctx(i)
       IN Store(i, [c EXCEPT !.s.status = "failed",
                             !.s.events = Append(@, Event("stream_error", <<>>)),
                             !.typing = RemoveTypingIndicator(@)])
    /\ sendBtnDisabled' = FALSE

\* ------------------------------------------------ ChatManager.sendMessage
\* The ChatManager after its constructor, with what the sendMessage call for
\* the current message has done: fetch calls, replies added, errors shown.
\* typingBubbles is the number of typing bubbles in the messages container,
\* inFlight the number of sendMessage calls that have not returned.
IdleChat ==
    [isLoading |-> FALSE, pc |-> "idle", hasConversation |-> FALSE,
     attempt |-> 0, fetches |-> 0, replies |-> 0, errors |-> <<>>,
     typingBubbles |-> 0, inFlight |-> 0, sent |-> 0, lastCall |-> "none"]

BusyNever == FALSE

\* The guard of line 142, for a message that is not empty.
Busy == cm.isLoading

\* Lines 158-188: the user message and the typing bubble are added and the
\* first fetch goes out.
StartAttempts(c) ==
    [c EXCEPT !.typingBubbles = @ + 1, !.attempt = 0, !.fetches = 1,
              !.pc = "fetching"]

\* The finally block: isLoading is false again and the call returns.
Finally(c) == [c EXCEPT !.isLoading = FALSE, !.pc = "idle", !.inFlight = @ - 1]

\* What the user has typed when sendMessage is called, after trim().
Inputs == {"", "hi"}

\* sendMessage is called: nothing happens when the input is empty or while
\* a send is loading; else the send starts, with the creation of a
\* conversation when there is none.  (getApiKey returns a fixed key.)
ChatSendMessage(message) ==
    IF message = ""
    THEN cm' = [cm EXCEPT !.lastCall = "empty"]
    ELSE IF Busy
    THEN cm' = [cm EXCEPT !.lastCall = "ignored"]
    ELSE /\ cm.sent < MaxChatSends
         /\ cm' = LET c == [cm EXCEPT !.isLoading = TRUE, !.inFlight = @ + 1,
                                      !.sent = @ + 1, !.lastCall = "started",
                                      !.attempt = 0, !.fetches = 0,
                                      !.replies = 0, !.errors = <<>>]
                  IN IF cm.hasConversation THEN StartAttempts(c)
                     ELSE [c EXCEPT !.pc = "creating"]

\* createNewConversation returns: with a conversation and an emptied
\* messages container, or, the request having failed, with its own error
\* shown and no conversation.  sendMessage goes on in both cases.
ConversationReturns(ok) ==
    /\ cm.pc = "creating"
    /\ cm' = IF ok
             THEN StartAttempts([cm EXCEPT !.hasConversation = TRUE,
                                           !.typingBubbles = 0])
             ELSE StartAttempts([cm EXCEPT !.errors = Append(@, "create")])

\* The fetch of the current attempt is over.  ok: the typing bubble is
\* replaced by the reply.  Not ok (rejected, status not OK, body not JSON):
\* the attempt is counted and either the next fetch goes out or, after the
\* last attempt, the inner catch shows an error and throws to the outer
\* catch, which shows another.
FetchReturns(ok) ==
    /\ cm.pc = "fetching"
    /\ cm' = IF ok
             THEN Finally([cm EXCEPT !.typingBubbles = @ - 1, !.replies = @ + 1])
             ELSE IF cm.attempt + 1 >= maxRetries
                  THEN Finally([cm EXCEPT !.attempt = @ + 1,
                                          !.errors = @ \o <<"attempts", "send">>])
                  ELSE [cm EXCEPT !.attempt = @ + 1, !.fetches = @ + 1]

Init ==
    /\ socket = Null
    /\ stale = EmptyBag
    /\ connected = FALSE
    /\ reconnectAttempts = 0
    /\ storage = NoItem
    /\ localQueue = InitLocalQueue(storage)
    /\ wire = <<>>
    /\ lastStatus = "none"
    /\ nextMsg = 0
    /\ sendCase = [m \in MsgIds |-> "unsent"]
    /\ lastOp = NoOp
    /\ eventHandlers = [e \in SubNames |-> <<>>]
    /\ subs = 0
    /\ produced = 0
    /\ dispatched = <<>>
    /\ lastSeen = [cb \in Callbacks |-> 0]
    /\ sess = <<>>
    /\ recordsSent = 0
    /\ conversationHistory = <<>>
    /\ typing = 0
    /\ sendBtnDisabled = FALSE
    /\ cm = IdleChat


\* Message delivery: the user connects, disconnects, sends and reloads the
\* page while transports connect and lose their connection.  A failed
\* attempt touches neither the flag nor the queue (it dispatches a status
\* event only) and is followed in SpecConn.
Next ==
    \/ Connect /\ UNCHANGED <<evVars, streamVars, chatVars>>
    \/ Disconnect /\ UNCHANGED <<evVars, streamVars, chatVars>>
    \/ \E meta \in Metas : SendMessage(meta) /\ UNCHANGED <<evVars, streamVars, chatVars>>
    \/ \E h \in Transports : OnConnect(h) /\ UNCHANGED <<evVars, streamVars, chatVars>>
    \/ \E h \in Transports : OnDisconnect(h) /\ UNCHANGED <<evVars, streamVars, chatVars>>
    \/ Restart /\ UNCHANGED <<evVars, streamVars, chatVars>>

Spec == Init /\ [][Next]_vars

\* Connection life cycle of one page: connect(), disconnect() and every
\* transport event, with the library's retries counted.
NextConn ==
    \/ Connect /\ UNCHANGED <<evVars, streamVars, chatVars>>
    \/ Disconnect /\ UNCHANGED <<evVars, streamVars, chatVars>>
    \/ \E h \in Transports : OnConnect(h) /\ UNCHANGED <<evVars, streamVars, chatVars>>
    \/ \E h \in Transports : OnDisconnect(h) /\ UNCHANGED <<evVars, streamVars, chatVars>>
    \/ \E h \in Transports : OnConnectError(h) /\ UNCHANGED <<evVars, streamVars, chatVars>>

SpecConn == Init /\ [][NextConn]_vars

\* Status reports: messages of one conversation are sent while transports
\* connect, fail to connect and lose their connection.
NextStatus ==
    \/ Connect /\ UNCHANGED <<evVars, streamVars, chatVars>>
    \/ SendMessage([k \in {"conversation_id"} |-> "c1"])
          /\ UNCHANGED <<evVars, streamVars, chatVars>>
    \/ \E h \in Transports : OnConnect(h) /\ UNCHANGED <<evVars, streamVars, chatVars>>
    \/ \E h \in Transports : OnDisconnect(h) /\ UNCHANGED <<evVars, streamVars, chatVars>>
    \/ \E h \in Transports : OnConnectError(h) /\ UNCHANGED <<evVars, streamVars, chatVars>>

SpecStatus == Init /\ [][NextStatus]_vars

\* The queue over time: messages of one conversation are sent while the
\* transports connect and lose their connection.  A transport that is
\* connecting does connect in the end (the server is there); nothing else
\* is bound to happen: the manager has no timer and the user need not act.
NextOutbox ==
    \/ Connect /\ UNCHANGED <<evVars, streamVars, chatVars>>
    \/ SendMessage([k \in {"conversation_id"} |-> "c1"])
          /\ UNCHANGED <<evVars, streamVars, chatVars>>
    \/ \E h \in Transports : OnConnect(h) /\ UNCHANGED <<evVars, streamVars, chatVars>>
    \/ \E h \in Transports : OnDisconnect(h) /\ UNCHANGED <<evVars, streamVars, chatVars>>

SpecOutbox ==
    /\ Init /\ [][NextOutbox]_vars
    /\ WF_vars(\E h \in Transports : OnConnect(h) /\ UNCHANGED <<evVars, streamVars, chatVars>>)

\* The chat page of ChatManager: the user sends messages, the server
\* answers or fails.
NextChat ==
    \/ \E message \in Inputs :
          ChatSendMessage(message) /\ UNCHANGED <<connVars, evVars, streamVars>>
    \/ \E ok \in BOOLEAN :
          ConversationReturns(ok) /\ UNCHANGED <<connVars, evVars, streamVars>>
    \/ \E ok \in BOOLEAN :
          FetchReturns(ok) /\ UNCHANGED <<connVars, evVars, streamVars>>

SpecChat == Init /\ [][NextChat]_vars

\* Event dispatch: callers subscribe and unsubscribe while transports
\* connect and the server sends events.
NextEvents ==
    \/ Connect /\ UNCHANGED <<evVars, streamVars, chatVars>>
    \/ \E h \in Transports : OnConnect(h) /\ UNCHANGED <<evVars, streamVars, chatVars>>
    \/ \E e \in SubNames, cb \in Callbacks : On(e, cb) /\ UNCHANGED <<connVars, streamVars, chatVars>>
    \/ \E e \in SubNames, cb \in Callbacks : Off(e, cb) /\ UNCHANGED <<connVars, streamVars, chatVars>>
    \/ \E h \in Transports, e \in SubNames : OnInbound(h, e) /\ UNCHANGED <<connVars, streamVars, chatVars>>

SpecEvents == Init /\ [][NextEvents]_vars

MaxChunk == 3        \* symbols in one chunk

\* One response at a time: the user sends with the button, the server
\* answers with a stream of records of the given kinds, cut into any chunks.
NextResponses(kinds) ==
    \/ ClickSend /\ UNCHANGED <<connVars, evVars, chatVars>>
    \/ \E i \in 1..Len(sess), recs \in Streams(kinds, MaxRecords - recordsSent),
          terminated \in BOOLEAN :
          ResponseArrives(i, recs, terminated) /\ UNCHANGED <<connVars, evVars, chatVars>>
    \/ \E i \in 1..Len(sess) : FetchFails(i) /\ UNCHANGED <<connVars, evVars, chatVars>>
    \/ \E i \in 1..Len(sess), n \in 1..MaxChunk :
          ReadChunk(i, n) /\ UNCHANGED <<connVars, evVars, chatVars>>
    \/ \E i \in 1..Len(sess) : ReadDone(i) /\ UNCHANGED <<connVars, evVars, chatVars>>
    \/ \E i \in 1..Len(sess) : ReadFail(i) /\ UNCHANGED <<connVars, evVars, chatVars>>

NextStream == NextResponses(WellFormedKinds)

SpecStream == Init /\ [][NextStream]_vars

NextNoisy == NextResponses(NoisyKinds)

SpecNoisy == Init /\ [][NextNoisy]_vars

\* Overlapping responses: the user sends again with the Enter key while a
\* response is being read.
ConcurrentKinds == {"delta_a", "done"}

NextConcurrent ==
    \/ EnterSend /\ UNCHANGED <<connVars, evVars, chatVars>>
    \/ \E i \in 1..Len(sess),
          recs \in Streams(ConcurrentKinds, MaxRecords - recordsSent) :
          ResponseArrives(i, recs, TRUE) /\ UNCHANGED <<connVars, evVars, chatVars>>
    \/ \E i \in 1..Len(sess) : FetchFails(i) /\ UNCHANGED <<connVars, evVars, chatVars>>
    \/ \E i \in 1..Len(sess), n \in 1..MaxChunk :
          ReadChunk(i, n) /\ UNCHANGED <<connVars, evVars, chatVars>>
    \/ \E i \in 1..Len(sess) : ReadDone(i) /\ UNCHANGED <<connVars, evVars, chatVars>>

SpecConcurrent == Init /\ [][NextConcurrent]_vars

TypeOK ==
    /\ socket.st \in {"none", "connecting", "connected", "closed", "failed"}
    /\ socket.attempts \in 0..maxReconnectAttempts
    /\ LiveCount <= MaxSockets
    /\ connected \in BOOLEAN
    /\ nextMsg \in 0..MaxSends

\* ------------------------------------------------------------ properties
OnWire(m) == \E i \in 1..Len(wire) : MsgOf(wire[i]) = m
InQueue(m) == \E i \in 1..Len(localQueue) : localQueue[i]["message"] = MsgText(m)
PersistedSeq == IF storage.present THEN storage.raw ELSE <<>>
InStorage(m) == \E i \in 1..Len(PersistedSeq) : MsgOf(PersistedSeq[i]) = m
Queued(m) == sendCase[m] \in {"disc", "raise"}
SendStep == nextMsg' = nextMsg + 1
FlushStep == lastOp'.op = "on_connect" /\ vars' # vars
RestartStep == lastOp'.op = "restart" /\ vars' # vars

\* C1: the payloads of sends made while disconnected are taken by
\* socket.emit('send_message') in the order of the sendMessage calls.
C1_OrderPreserved ==
    \A i, j \in 1..Len(wire) :
        (i < j /\ sendCase[MsgOf(wire[i])] = "disc"
               /\ sendCase[MsgOf(wire[j])] = "disc")
        => MsgOf(wire[i]) < MsgOf(wire[j])

C1_Witness ==
    /\ lastOp.op = "on_connect" /\ lastOp.emits >= 2
    /\ \A m \in MsgIds : m <= 2 => sendCase[m] = "disc" /\ OnWire(m)

\* C2: a message queued while disconnected stays in the queue and in the
\* persisted slot until socket.emit took it; a page reload gives the new
\* manager the persisted sequence in the same order, and a flush that does
\* not raise emits exactly the persisted sequence, in its order.
C2_NoLossAcrossRestart ==
    /\ [](\A m \in MsgIds : (sendCase[m] = "disc" /\ ~OnWire(m))
                               => (InQueue(m) /\ InStorage(m)))
    /\ [][/\ RestartStep => /\ JSONStringify(localQueue') = PersistedSeq
                            /\ JSONStringify(localQueue') = JSONStringify(localQueue)
                            /\ storage' = storage
          /\ (FlushStep /\ ~lastOp'.raised) => /\ wire' = wire \o PersistedSeq
                                               /\ localQueue' = <<>>
         ]_vars

C2_Witness ==
    /\ lastOp.op = "restart"
    /\ Len(localQueue) >= 2
    /\ \A m \in MsgIds : m <= 2 => sendCase[m] = "disc" /\ InQueue(m)

\* C3: connect() called while a transport exists and the flag is set
\* creates no transport, replaces no transport and gives subscribers no
\* 'connection' event.
C3_ConnectIdempotent ==
    [][(lastOp'.op = "connect" /\ vars' # vars
            /\ socket.st # "none" /\ connected)
       => /\ socket' = socket
          /\ stale' = stale
          /\ connected' = connected
          /\ lastStatus' = lastStatus
          /\ lastOp'.events = <<>>
          /\ ~lastOp'.created]_vars

C3_Witness ==
    /\ lastOp.op = "connect" /\ ~lastOp.created
    /\ connected /\ SocketConnected
    /\ LiveCount = 1

\* C4: at most one transport created by connect() is live with handlers
\* attached.
C4_AtMostOneLive == LiveCount <= 1

\* C5: sendMessage calls socket.emit only when the flag and
\* socket.connected are both true, and changes no connection state; when
\* they are not both true it emits nothing, returns false and appends the
\* payload to the end of the queue; it returns true only after an emit that
\* did not raise.
C5_SendImmediateOrQueue ==
    [][SendStep =>
        LET established == connected /\ socket.st = "connected"
            m == nextMsg'
        IN
        /\ socket' = socket /\ stale' = stale /\ connected' = connected
        /\ (lastOp'.emits > 0 \/ lastOp'.raised) => established
        /\ ~established =>
              /\ wire' = wire
              /\ lastOp'.ret = "false"
              /\ Len(localQueue') = Len(localQueue) + 1
              /\ SubSeq(localQueue', 1, Len(localQueue)) = localQueue
              /\ localQueue'[Len(localQueue')]["message"] = MsgText(m)
        /\ lastOp'.ret = "true" =>
              /\ ~lastOp'.raised
              /\ Len(wire') = Len(wire) + 1
              /\ SubSeq(wire', 1, Len(wire)) = wire
              /\ MsgOf(wire'[Len(wire')]) = m
              /\ localQueue' = localQueue
      ]_vars

C5_Witness ==
    /\ lastOp.op = "send" /\ lastOp.ret = "false" /\ ~lastOp.raised
    /\ connected /\ HasSocket /\ ~SocketConnected
    /\ InQueue(nextMsg)

\* C6: when socket.emit raises inside sendMessage, nothing is thrown to the
\* caller, false is returned and the payload is appended to the queue and
\* persisted, as for a send made while disconnected.
C6_EmitRaiseQueues ==
    [][(SendStep /\ lastOp'.raised) =>
        /\ lastOp'.ret = "false"
        /\ wire' = wire
        /\ Len(localQueue') = Len(localQueue) + 1
        /\ SubSeq(localQueue', 1, Len(localQueue)) = localQueue
        /\ localQueue'[Len(localQueue')]["message"] = MsgText(nextMsg')
        /\ storage'.present
        /\ Len(storage'.raw) = Len(localQueue')
        /\ MsgOf(storage'.raw[Len(storage'.raw)]) = nextMsg'
      ]_vars

C6_Witness ==
    /\ lastOp.op = "send" /\ lastOp.raised /\ lastOp.ret = "false"
    /\ sendCase[nextMsg] = "raise" /\ InQueue(nextMsg)

\* C7: a flush emits the entries from the head in order; when an emit
\* raises, that entry is back at the head and the flush stops, so the queue
\* afterwards is the not yet emitted suffix of the queue before, in order.
C7_DrainStopsAtFailure ==
    [][FlushStep =>
        LET k == lastOp'.emits IN
        /\ k <= Len(localQueue)
        /\ wire' = wire \o JSONStringify(SubSeq(localQueue, 1, k))
        /\ localQueue' = SubSeq(localQueue, k + 1, Len(localQueue))
        /\ lastOp'.raised <=> k < Len(localQueue)
      ]_vars

C7_Witness ==
    /\ lastOp.op = "on_connect" /\ lastOp.raised /\ lastOp.emits >= 1
    /\ Len(localQueue) >= 1

\* C8: every payload that was queued and that socket.emit has not taken
\* without raising is still in the in-memory queue and in the persisted
\* slot.
C8_RemovedOnlyAfterEmit ==
    \A m \in MsgIds : (Queued(m) /\ ~OnWire(m)) => (InQueue(m) /\ InStorage(m))

C8_Witness ==
    /\ lastOp.op = "on_connect" /\ lastOp.raised
    /\ \E m \in MsgIds : sendCase[m] = "raise" /\ ~OnWire(m) /\ InQueue(m)

\* C9: when sendMessage returns false the persisted slot holds the new
\* payload as its last element, and after every sendMessage and every
\* flush the persisted sequence is the serialized in-memory queue.
C9_PersistedEqualsQueue ==
    /\ (lastOp.op = "send" /\ lastOp.ret = "false") =>
          /\ storage.present
          /\ Len(storage.raw) >= 1
          /\ MsgOf(storage.raw[Len(storage.raw)]) = nextMsg
    /\ lastOp.op \in {"send", "on_connect"} =>
          PersistedSeq = JSONStringify(localQueue)

C9_Witness ==
    /\ lastOp.op = "send" /\ lastOp.ret = "false"
    /\ Len(localQueue) >= 2
    /\ \E i \in 1..Len(localQueue) : localQueue[i]["conversation_id"] = Undefined

\* C10: once the retries of the current transport are exhausted, the last
\* 'connection' status given to subscribers is disconnected.
C10_TerminalDisconnected ==
    socket.st = "failed" => lastStatus = "disconnected"

\* C11: this.reconnectAttempts counts the failed attempts (it is above
\* zero after a connect_error) and goes back to zero only in the 'connect'
\* handler.
C11_CountsFailedAttempts ==
    /\ [](lastOp.op = "on_connect_error" => reconnectAttempts >= 1)
    /\ [][(reconnectAttempts # 0 /\ reconnectAttempts' = 0)
             => lastOp'.op = "on_connect"]_vars

InboundStep == produced' = produced + 1

\* C12: an inbound event, also one the manager has no handler of its own
\* for, is given with its payload to every callback subscribed under its
\* name, and to no callback under another name or with another payload.
C12_InboundForwarded ==
    [][InboundStep =>
        \E e \in SubNames :
            /\ \A i \in 1..Len(eventHandlers[e]) :
                  \E j \in 1..Len(dispatched') :
                      dispatched'[j] = [cb |-> eventHandlers[e][i], event |-> e,
                                        payload |-> produced']
            /\ \A j \in 1..Len(dispatched') :
                  /\ dispatched'[j].event = e
                  /\ dispatched'[j].payload = produced'
                  /\ \E i \in 1..Len(eventHandlers[e]) :
                         eventHandlers[e][i] = dispatched'[j].cb
      ]_vars

C12_Witness ==
    /\ produced >= 1
    /\ \E j \in 1..Len(dispatched) :
          dispatched[j].event = "status_update" /\ dispatched[j].payload = produced

\* C13: a callback is given the events in the order the transports produced
\* them: every invocation carries an event at least as recent as the one
\* the callback was given before.
C13_DeliveredInOrder ==
    [][InboundStep =>
        \A j \in 1..Len(dispatched') :
            /\ dispatched'[j].payload >= lastSeen[dispatched'[j].cb]
            /\ \A i \in 1..j : dispatched'[i].cb = dispatched'[j].cb
                                  => dispatched'[i].payload <= dispatched'[j].payload
      ]_vars

C13_Witness ==
    /\ produced >= 2
    /\ \E cb \in Callbacks : lastSeen[cb] = 2
          /\ \E j \in 1..Len(dispatched) : dispatched[j].cb = cb

\* ---------------------------------------------------------------------
\* What a response is expected to give, from the records the server wrote.
IsDelta(e) == e.type = "delta"
IsDone(e) == e.type = "done"
IsErr(e) == e.type = "error"
IsDeltaKind(k) == k \in {"delta_a", "delta_blank"}
ContentOf(kind) == IF kind = "delta_a" THEN <<"a">> ELSE <<Blank>>
Count(events, type) == Cardinality({k \in 1..Len(events) : events[k].type = type})

Started(s) == s.status \in {"reading", "ended", "failed"}

\* The records of s whose newline has been read.
CompleteRecs(s) ==
    SubSeq(s.recs, 1, Cardinality({k \in 1..s.pos : Text(s)[k] = Newline}))

ExpectedDeltas(recs) ==
    LET ds == SelectSeq(recs, IsDeltaKind)
    IN [k \in 1..Len(ds) |-> Event("delta", ContentOf(ds[k]))]

\* What streamResponse does when the text arrives in one chunk.
Uncut(text) ==
    ProcessChunk([s |-> [NewSession EXCEPT !.status = "reading"],
                  history |-> <<>>, typing |-> 1], text).s

RECURSIVE ConcatTexts(_)
ConcatTexts(events) ==
    IF events = <<>> THEN <<>> ELSE Head(events).text \o ConcatTexts(Tail(events))

\* The concatenation of the deltas before event k.
DeltaTextBefore(events, k) == ConcatTexts(SelectSeq(SubSeq(events, 1, k - 1), IsDelta))

\* C14: however the stream is cut into chunks, the deltas delivered and the
\* carry are those of the uncut stream read so far: every delta record whose
\* newline has arrived gives exactly one delta, in order, also when the
\* record came in pieces.  (A delta record is longer than a chunk here, so
\* every one of them comes in pieces.)
C14_ChunkingInvisible ==
    \A i \in 1..Len(sess) :
        Started(sess[i]) =>
            LET s == sess[i]
                u == Uncut(SubSeq(Text(s), 1, s.pos))
            IN /\ SelectSeq(s.events, IsDelta) = SelectSeq(u.events, IsDelta)
               /\ SelectSeq(s.events, IsDelta) = ExpectedDeltas(CompleteRecs(s))
               /\ s.status = "reading" => s.buffer = u.buffer

C14_Witness ==
    \E i \in 1..Len(sess) :
        /\ sess[i].status = "ended"
        /\ sess[i].recs = <<"delta_a", "delta_blank">>
        /\ SelectSeq(sess[i].events, IsDelta) =
              <<Event("delta", <<"a">>), Event("delta", <<Blank>>)>>

\* C15: a record with the marker and a body that does not parse is logged
\* and skipped: it gives no delta, and the records after it are handled
\* (a done record after it gives its done event).
C15_MalformedSkipped ==
    \A i \in 1..Len(sess) :
        Started(sess[i]) =>
            LET s == sess[i]
                done == CompleteRecs(s)
            IN /\ SelectSeq(s.events, IsDelta) = ExpectedDeltas(done)
               /\ Count(s.events, "parse_error") =
                     Cardinality({k \in 1..Len(done) : done[k] = "bad"})
               /\ Count(s.events, "done") =
                     Cardinality({k \in 1..Len(done) : done[k] = "done"})

C15_Witness ==
    \E i \in 1..Len(sess) :
        /\ sess[i].status = "ended"
        /\ sess[i].recs = <<"bad", "done">>
        /\ sess[i].events = <<Event("parse_error", <<>>), Event("done", <<>>)>>

\* C16: once an error record has been handled, the response gives no done
\* event, so the text accumulated before the error is not persisted.
C16_ErrorIsolated ==
    \A i \in 1..Len(sess) :
        \A j, k \in 1..Len(sess[i].events) :
            (j < k /\ IsErr(sess[i].events[j])) => ~IsDone(sess[i].events[k])

\* C17: done and error are terminal: after either of them no record of the
\* response is rendered as a delta and none persists a message.
C17_TerminalIsFinal ==
    \A i \in 1..Len(sess) :
        \A j, k \in 1..Len(sess[i].events) :
            (j < k /\ (IsDone(sess[i].events[j]) \/ IsErr(sess[i].events[j])))
                => sess[i].events[k].type \notin {"delta", "done", "final_text"}

\* C18: at the end of the input a last record with the marker and without
\* newline is handled as it would be with the newline: same deltas, same
\* done and error events, same accumulated text.
C18_FinalRecordHandled ==
    \A i \in 1..Len(sess) :
        LET s == sess[i]
            u == Uncut(Serialize(s.recs, TRUE))
        IN (s.status = "ended" /\ ~s.terminated /\ s.recs[Len(s.recs)] # "bare")
              => /\ s.fullResponse = u.fullResponse
                 /\ \A t \in {"delta", "done", "error"} :
                       Count(s.events, t) = Count(u.events, t)

\* The assistant messages pushed since the last user message.
RECURSIVE AssistantTail(_)
AssistantTail(h) ==
    IF h = <<>> \/ h[Len(h)].role = "user" THEN <<>>
    ELSE Append(AssistantTail(SubSeq(h, 1, Len(h) - 1)), h[Len(h)].content)

\* The texts the done events of a response are to persist, given which of
\* them persist at all.
PersistedBy(events, Persists(_)) ==
    LET ks == {k \in 1..Len(events) : IsDone(events[k])
                                      /\ Persists(DeltaTextBefore(events, k))}
        RECURSIVE Texts(_)
        Texts(k) == IF k = 0 THEN <<>>
                    ELSE IF k \in ks THEN Append(Texts(k - 1), DeltaTextBefore(events, k))
                    ELSE Texts(k - 1)
    IN Texts(Len(events))

NotEmpty(text) == text # <<>>
NotBlank(text) == Trim(text) # <<>>

\* C19 as stated: every done record after at least one delta persists the
\* concatenation of the deltas before it.
C19_DonePersistsDeltas ==
    Len(sess) >= 1 /\ Started(sess[Len(sess)]) =>
        AssistantTail(conversationHistory) =
            PersistedBy(sess[Len(sess)].events, NotEmpty)

\* C19, amended: a done record persists the concatenation, in arrival
\* order, of the deltas before it when that text is not blank, and
\* persists nothing when it is blank.
C19_DonePersistsVisibleText ==
    Len(sess) >= 1 /\ Started(sess[Len(sess)]) =>
        AssistantTail(conversationHistory) =
            PersistedBy(sess[Len(sess)].events, NotBlank)

C19_Witness ==
    /\ Len(sess) >= 1
    /\ sess[Len(sess)].recs = <<"delta_a", "delta_blank", "done">>
    /\ AssistantTail(conversationHistory) = << <<"a", Blank>> >>

\* C20: a handleSendMessage call while responses are in flight leaves the
\* locals of every one of them as they are, and each of them goes on to
\* deliver the deltas of the records it has read.
C20_SendLeavesStreamsAlone ==
    /\ [][Len(sess') = Len(sess) + 1 =>
            \A i \in 1..Len(sess) : InFlight(sess[i]) => sess'[i] = sess[i]]_vars
    /\ [](\A i \in 1..Len(sess) :
            Started(sess[i]) =>
                SelectSeq(sess[i].events, IsDelta) = ExpectedDeltas(CompleteRecs(sess[i])))

C20_Witness ==
    /\ Len(sess) >= 2
    /\ sess[1].status = "ended"
    /\ sess[1].recs = <<"delta_a", "done">>
    /\ sess[1].events = <<Event("delta", <<"a">>), Event("done", <<"a">>)>>
    /\ sess[2].status = "reading"
    /\ sess[2].fullResponse # <<>>

\* ---------------------------------------------------------------------
OffStep == eventHandlers' # eventHandlers /\ subs' = subs

\* The callbacks of a batch, in the order they were called.
CalledIn(batch) == [j \in 1..Len(batch) |-> batch[j].cb]

\* C21: a dispatch calls the callbacks subscribed under the event in
\* subscription order, all of them also when one throws (the batch of an
\* inbound event is one such dispatch, or two for a named event), and
\* off(event, cb) takes every subscription of cb out of the list the later
\* dispatches go through.
C21_SubscriptionOrder ==
    [][/\ InboundStep =>
            \E e \in SubNames :
                /\ \A j \in 1..Len(dispatched') : dispatched'[j].event = e
                /\ CalledIn(dispatched') \in
                      {eventHandlers[e], eventHandlers[e] \o eventHandlers[e]}
       /\ OffStep =>
            \E e \in SubNames, cb \in Callbacks :
                LET Other(x) == x # cb
                IN /\ eventHandlers'[e] = SelectSeq(eventHandlers[e], Other)
                   /\ \A f \in SubNames \ {e} : eventHandlers'[f] = eventHandlers[f]
      ]_vars

C21_Witness ==
    /\ eventHandlers["status_update"] = <<"cb2", "cb1">>
    /\ CalledIn(dispatched) = <<"cb2", "cb1">>
    /\ dispatched[1].event = "status_update"

\* ---------------------------------------------------------------------
\* C22: the 'connection' event carries status connected for a transport's
\* 'connect', disconnected for its 'disconnect' and error for its
\* 'connect_error', and a 'connect_error' changes neither the connected
\* flag nor the queue, in memory and persisted.
C22_StatusReported ==
    [][/\ lastOp'.op = "on_connect" =>
            lastOp'.events = <<"connected">> /\ lastStatus' = "connected"
       /\ lastOp'.op = "on_disconnect" =>
            lastOp'.events = <<"disconnected">> /\ lastStatus' = "disconnected"
       /\ lastOp'.op = "on_connect_error" =>
            /\ lastOp'.events = <<"error">> /\ lastStatus' = "error"
            /\ UNCHANGED <<connected, localQueue, storage, wire>>
      ]_vars

C22_Witness ==
    /\ lastOp.op = "on_connect_error"
    /\ lastStatus = "error"
    /\ connected
    /\ localQueue # <<>>

\* ---------------------------------------------------------------------
\* C23: a complete record without the marker is dropped: the events of a
\* response are one for each complete record with the marker and none for
\* the others, the accumulated text is that of the complete delta records,
\* and the records after a dropped one are handled.
C23_NoMarkerDiscarded ==
    \A i \in 1..Len(sess) :
        Started(sess[i]) =>
            LET s == sess[i]
                done == CompleteRecs(s)
                marked == {k \in 1..Len(done) : done[k] # "bare"}
            IN /\ Cardinality({k \in 1..Len(s.events) :
                      s.events[k].type \in {"delta", "done", "error", "parse_error"}})
                    = Cardinality(marked)
               /\ Count(s.events, "error") = 0
               /\ s.status = "reading" =>
                     s.fullResponse = ConcatTexts(ExpectedDeltas(done))

C23_Witness ==
    \E i \in 1..Len(sess) :
        /\ sess[i].status = "reading"
        /\ sess[i].recs = <<"delta_a", "bare", "done">>
        /\ sess[i].pos = Len(Text(sess[i]))
        /\ sess[i].events = <<Event("delta", <<"a">>), Event("done", <<"a">>)>>
        /\ sess[i].fullResponse = <<"a">>

\* ---------------------------------------------------------------------
\* C24: an inbound named event is given once to each callback subscribed
\* under its name: a callback is called as many times as it is subscribed,
\* not once more by the onAny forwarder.
C24_NamedDispatchedOnce ==
    [][InboundStep =>
        \A e \in NamedEvents \cap SubNames, cb \in Callbacks :
            Cardinality({j \in 1..Len(dispatched') :
                            dispatched'[j].cb = cb /\ dispatched'[j].event = e})
              <= Cardinality({i \in 1..Len(eventHandlers[e]) : eventHandlers[e][i] = cb})
      ]_vars

\* ---------------------------------------------------------------------
\* C25: this.connected is true exactly when the current transport,
\* this.socket, is connected; the events of a replaced transport do not
\* change it.
C25_FlagIsCurrentTransport == connected <=> SocketConnected

\* ---------------------------------------------------------------------
\* The connection is established: flag and current transport agree on it.
Established == connected /\ SocketConnected

\* C26: a payload in the queue while the connection is established is
\* emitted in the end, unless the connection is lost first; no further
\* 'connect' event is needed for it.
C26_QueueDrainsWhileConnected ==
    [](Established /\ localQueue # <<>>
          => <>(localQueue = <<>> \/ ~Established))

\* ---------------------------------------------------------------------
\* C30: while a response of handleSendMessage is in flight no second one is
\* started, and when none is in flight any more the send button is enabled
\* again, whichever way the sends finished.
C30_OneStreamButtonBack ==
    /\ Cardinality({i \in 1..Len(sess) : InFlight(sess[i])}) <= 1
    /\ (\A i \in 1..Len(sess) : ~InFlight(sess[i])) => ~sendBtnDisabled

\* ---------------------------------------------------------------------
\* The errors about the message not having been sent that a send has shown.
SendFailureReports ==
    Cardinality({k \in 1..Len(cm.errors) : cm.errors[k] \in {"attempts", "send"}})

\* C27: a message takes at most maxRetries fetch calls and none after the
\* one that succeeded, its reply is added at most once, and when every
\* attempt failed the failure is shown to the user once.
C27_RetriesAndOneReport ==
    /\ cm.fetches <= maxRetries
    /\ cm.replies <= 1
    /\ cm.replies = 1 => cm.pc = "idle"
    /\ (cm.pc = "idle" /\ cm.sent >= 1 /\ cm.replies = 0) => SendFailureReports = 1

\* C28: at most one sendMessage is in flight, a call made while one is
\* loading does nothing, and isLoading is false whenever no send is in
\* flight.
C28_OneSendInFlight ==
    /\ [](cm.inFlight <= 1)
    /\ [](cm.isLoading <=> cm.inFlight = 1)
    /\ [](cm.pc = "idle" => ~cm.isLoading)
    /\ [][cm.lastCall # "ignored" /\ cm'.lastCall = "ignored"
            => cm.isLoading /\ cm' = [cm EXCEPT !.lastCall = "ignored"]]_vars

C28_Witness ==
    /\ cm.lastCall = "ignored"
    /\ cm.pc = "idle"
    /\ ~cm.isLoading
    /\ cm.errors = <<"attempts", "send">>

====
